---- MODULE Spec2Model ----
(***************************************************************************)
(* TeqBot (kteq-teqbot): the command handler of teqbot/__main__.py, the    *)
(* scheduler loop of TeqBot.scheduler, the launcher TeqBot.spawn_task, the *)
(* task bodies TeqBot.task_* and the persisted marker files .teq.stat,     *)
(* .teq.song, .teq.lyric and lastSwear.json.                               *)
(*                                                                         *)
(* A bit string ('00000001') is a sequence of the digits 0 and 1.  A file  *)
(* is its content, a string, or NoFile when it does not exist.  Writing a  *)
(* file with open(name, 'w') takes two steps: the open truncates the file  *)
(* to the empty string, the close that follows f.write() stores the data.  *)
(***************************************************************************)
EXTENDS Naturals, Integers, Sequences, FiniteSets, Bags, TLC

\* ------------------------------------------------------------------ bounds
MaxTicks == 4
MaxLoopTicks == 1200
MaxKills == 1
MaxFreq == 2
MaxArgs == 3
MaxWorkers == 2
MaxChanges == 1
MaxTaskRuns == 3
MaxUsages == 1
MaxFailWords == 1

\* ------------------------------------------------------- program constants
STANDARD_FREQUENCY == 5
NOW_PLAYING   == <<0,0,0,0,0,0,0,1>>
STREAM_STATUS == <<0,0,0,0,0,0,1,0>>
CHECK_LYRICS  == <<0,0,0,0,0,1,0,0>>
SWEAR_LOG     == <<0,0,0,0,1,0,0,0>>
OPTION_5      == <<0,0,0,1,0,0,0,0>>
OPTION_6      == <<0,0,1,0,0,0,0,0>>
OPTION_7      == <<0,1,0,0,0,0,0,0>>
UPDATE_REPO   == <<1,0,0,0,0,0,0,0>>
DefaultEvent  == <<1,1,1,1,1,1,1,1>>
ZeroEvent     == <<0,0,0,0,0,0,0,0>>
ProbeAttempts == 5

NoFile == "<no file>"

\* ------------------------------------------------- conversions of the code
\* int(s, 2)
RECURSIVE BinToInt(_)
BinToInt(s) ==
  IF Len(s) = 0 THEN 0
  ELSE 2 * BinToInt(SubSeq(s, 1, Len(s) - 1)) + s[Len(s)]

\* "{0:b}".format(n): no leading zeros, '0' for 0
RECURSIVE IntToBin(_)
IntToBin(n) ==
  IF n < 2 THEN <<n>> ELSE Append(IntToBin(n \div 2), n % 2)

\* int(s): the digits read as a decimal number
RECURSIVE DecToInt(_)
DecToInt(s) ==
  IF Len(s) = 0 THEN 0
  ELSE 10 * DecToInt(SubSeq(s, 1, Len(s) - 1)) + s[Len(s)]

\* a | b
RECURSIVE BitOr(_, _)
BitOr(a, b) ==
  IF a = 0 THEN b
  ELSE IF b = 0 THEN a
  ELSE 2 * BitOr(a \div 2, b \div 2) + (IF a % 2 = 1 \/ b % 2 = 1 THEN 1 ELSE 0)

\* a & b
RECURSIVE BitAnd(_, _)
BitAnd(a, b) ==
  IF a = 0 \/ b = 0 THEN 0
  ELSE 2 * BitAnd(a \div 2, b \div 2) + (IF a % 2 = 1 /\ b % 2 = 1 THEN 1 ELSE 0)

\* event = "{0:b}".format( int(event, 2) | int(FLAG, 2) )
OrFlag(event, flag) == IntToBin(BitOr(BinToInt(event), BinToInt(flag)))

\* int( "{0:b}".format( int(event, 2) & int(FLAG, 2) ) )
TaskFlag(event, flag) == DecToInt(IntToBin(BitAnd(BinToInt(event), BinToInt(flag))))

\* a membership test that looks at the first argument only
InArgsFirst(tok, a) == Len(a) > 0 /\ a[1] = tok

\* "x" in args
InArgs(tok, a) == \E i \in 1..Len(a) : a[i] = tok

\* ------------------------------------------------------------ flag decoder
OrIf(cond, event, flag) == IF cond THEN OrFlag(event, flag) ELSE event

\* the five token tests as one if/elif chain: only the first flag found counts
DecodeEventElif(a) ==
  IF InArgs("--nowplaying", a) \/ InArgs("-n", a) THEN OrFlag(ZeroEvent, NOW_PLAYING)
  ELSE IF InArgs("--status", a) \/ InArgs("-s", a) THEN OrFlag(ZeroEvent, STREAM_STATUS)
  ELSE IF InArgs("--lyric", a) \/ InArgs("-l", a) THEN OrFlag(ZeroEvent, CHECK_LYRICS)
  ELSE IF InArgs("--swear", a) \/ InArgs("-w", a) THEN OrFlag(ZeroEvent, SWEAR_LOG)
  ELSE IF InArgs("--update", a) \/ InArgs("-u", a) THEN OrFlag(ZeroEvent, UPDATE_REPO)
  ELSE ZeroEvent

DecodeEvent(a) ==
  LET e0 == ZeroEvent
      e1 == OrIf(InArgs("--nowplaying", a) \/ InArgs("-n", a), e0, NOW_PLAYING)
      e2 == OrIf(InArgs("--status", a)     \/ InArgs("-s", a), e1, STREAM_STATUS)
      e3 == OrIf(InArgs("--lyric", a)      \/ InArgs("-l", a), e2, CHECK_LYRICS)
      e4 == OrIf(InArgs("--swear", a)      \/ InArgs("-w", a), e3, SWEAR_LOG)
      e5 == OrIf(InArgs("--update", a)     \/ InArgs("-u", a), e4, UPDATE_REPO)
  IN e5

\* ------------------------------------------------------------------- state
VARIABLES
  args,        \* sys.argv[2:] of the scheduler command
  entry,       \* how TeqBot.scheduler was entered: "command" or "api"
  event,       \* the event bit string handed to TeqBot.scheduler
  frequency,   \* the frequency argument of TeqBot.scheduler
  lpc,         \* position of the scheduler process
  flags,       \* nowPlaying, streamStatus, checkLyrics, swearLog, updateRepo
  clock,       \* nowPlayingClock, ... : one counter per task
  tick,        \* completed time.sleep(1) calls of the loop
  launchLog,   \* <<tick, task>> of every process spawn_task started, in order
  stat,        \* .teq.stat
  song,        \* .teq.song
  lyric,       \* .teq.lyric
  lastSwear,   \* lastSwear.json
  lyrics,      \* lyrics.txt
  workers,     \* bag of the running 'teqbot task ...' processes
  sent,        \* number of teq_message / tunein calls, per message
  kpc,         \* position of the kill command
  kills,       \* kill commands started
  doneWritten, \* a kill command stored 'Done' while the loop was running
  crashed,     \* some task process ended with an uncaught exception
  live,        \* what stream.ping_stream reports as playing
  logged,      \* nowPlaying.txt of the song logger
  swear,       \* swear.json of the song logger
  changes,     \* changes of live, logged and swear so far
  taskRuns,    \* 'teqbot task ...' commands started from the command line
  targv,       \* sys.argv[2:] of the latest of them
  usages,      \* 'teqbot usage' commands run
  followed,    \* the tasks whose processes are followed step by step
  start,       \* the marker files before the first of a sequence of task commands
  inputs       \* what each task process of the sequence fetched or probed

vars == <<args, entry, event, frequency, lpc, flags, clock, tick, launchLog, stat,
          song, lyric, lastSwear, lyrics, workers, sent, kpc, kills,
          doneWritten, crashed, live, logged, swear, changes, taskRuns,
          targv, usages, followed, start, inputs>>

schedVars == <<args, entry, event, frequency, lpc, flags, clock, tick,
               launchLog>>
fileVars  == <<stat, song, lyric, lastSwear, lyrics>>
killVars  == <<kpc, kills, doneWritten>>
envVars   == <<live, logged, swear, changes, followed, start, inputs>>

Tasks == {"nowplaying", "status", "lyric", "swear", "update"}

\* the order of the five if-statements of the loop body
Order == <<"nowplaying", "status", "lyric", "swear", "update">>

FlagOf(t) ==
  CASE t = "nowplaying" -> NOW_PLAYING
    [] t = "status"     -> STREAM_STATUS
    [] t = "lyric"      -> CHECK_LYRICS
    [] t = "swear"      -> SWEAR_LOG
    [] t = "update"     -> UPDATE_REPO

NowPlayingMult == 2
StreamStatusMult == 20
CheckLyricsMult == 1
SwearLogMult == 1
UpdateRepoMult == 1200

\* the multipliers of song-change and stream-health exchanged
MultExchanged(t) ==
  CASE t = "nowplaying" -> StreamStatusMult
    [] t = "status"     -> NowPlayingMult
    [] t = "lyric"      -> CheckLyricsMult
    [] t = "swear"      -> SwearLogMult
    [] t = "update"     -> UpdateRepoMult

Mult(t) ==
  CASE t = "nowplaying" -> NowPlayingMult
    [] t = "status"     -> StreamStatusMult
    [] t = "lyric"      -> CheckLyricsMult
    [] t = "swear"      -> SwearLogMult
    [] t = "update"     -> UpdateRepoMult

Divisor(t) == frequency * Mult(t)

\* 'if nowPlaying and nowPlayingClock % (frequency * 2) == 0'
Due(t) == flags[t] # 0 /\ clock[t] % Divisor(t) = 0

DueSeq == SelectSeq(Order, Due)

\* the ticks a run is followed for: MaxLoopTicks when no task process is
\* followed, only the loop
Horizon == IF followed = {} THEN MaxLoopTicks ELSE MaxTicks

\* ----------------------------------------------------------------- workers
StartPc(t) ==
  CASE t = "nowplaying" -> "np_start"
    [] t = "status"     -> "st_probe"
    [] t = "lyric"      -> "ly_np"
    [] t = "swear"      -> "sw_data"
    [] t = "update"     -> "up_pull"

NoRecord == [k \in {} |-> ""]

NewWorker(t) ==
  [task |-> t, pc |-> StartPc(t), val |-> "", n |-> 0, data |-> NoRecord]

\* subprocess.Popen(args): the new process runs beside its parent.  At most
\* MaxWorkers processes, of the tasks in followed, are followed; any other
\* process started is one that has not taken a step yet.
RECURSIVE Started(_, _)
Started(bag, ts) ==
  IF Len(ts) = 0 THEN bag
  ELSE Started(IF Head(ts) \in followed /\ BagCardinality(bag) < MaxWorkers
                 THEN bag (+) SetToBag({NewWorker(Head(ts))})
                 ELSE bag,
               Tail(ts))

Running == BagToSet(workers)

Move(w, next) == (workers (-) SetToBag({w})) (+) SetToBag({next})
Exit(w) == workers (-) SetToBag({w})

\* the record of what the task processes read is kept for the task commands
\* typed one after another
Noted(e) == IF start.kept THEN Append(inputs, e) ELSE inputs

Count(msg) == IF msg \in DOMAIN sent THEN sent[msg] ELSE 0

\* teq_message(...) and tunein(...): one more call with this message
Emit(msg) == [m \in DOMAIN sent \cup {msg} |-> Count(m) + (IF m = msg THEN 1 ELSE 0)]

\* ------------------------------------------------------- scheduler command
SchedArgs ==
  { <<>>, <<"--bogus">>, <<"-s">>, <<"--nowplaying">>, <<"-l", "--swear">>,
    <<"-n", "--status">>, <<"--update", "-x">> }

ApiEvents == { DefaultEvent, <<1, 1>>, UPDATE_REPO }

ZeroClock == [t \in Tasks |-> 0]
NoFlags == [t \in Tasks |-> 0]

\* command_handler, 'elif "SCHEDULER" in args': delete_stat_file(), the five
\* token tests, then teq.scheduler(event) with the default frequency
CommandScheduler ==
  /\ lpc = "idle"
  /\ entry' = "command"
  /\ event' = DecodeEvent(args)
  /\ frequency' = STANDARD_FREQUENCY
  /\ stat' = NoFile
  /\ lpc' = "seed_song"
  /\ clock' = ZeroClock
  /\ UNCHANGED <<args, flags, tick, launchLog, song, lyric, lastSwear, lyrics,
                 workers, sent, killVars, crashed, envVars, taskRuns, targv, usages>>

\* TeqBot.scheduler(event='11111111', frequency=STANDARD_FREQUENCY) called
\* without the command handler
ApiScheduler ==
  /\ lpc = "idle"
  /\ args = <<>>
  /\ entry' = "api"
  /\ \E e \in ApiEvents, f \in 1..MaxFreq :
       /\ event' = e
       /\ frequency' = f
  /\ lpc' = "seed_song"
  /\ clock' = ZeroClock
  /\ UNCHANGED <<args, flags, tick, launchLog, fileVars, workers, sent,
                 killVars, crashed, envVars, taskRuns, targv, usages>>

\* a start that leaves .teq.song as it finds it
SeedSongSkip ==
  /\ lpc = "seed_song"
  /\ lpc' = "seed_stat"
  /\ UNCHANGED <<args, entry, event, frequency, flags, clock, tick, launchLog, stat,
                 song, lyric, lastSwear, lyrics, workers, sent, killVars, crashed,
                 envVars, taskRuns, targv, usages>>

\* set_last_played("None"): open('.teq.song', 'w')
SeedSongOpen ==
  /\ lpc = "seed_song"
  /\ song' = ""
  /\ lpc' = "seed_song_w"
  /\ UNCHANGED <<args, entry, event, frequency, flags, clock, tick, launchLog, stat,
                 lyric, lastSwear, lyrics, workers, sent, killVars, crashed,
                 envVars, taskRuns, targv, usages>>

\* set_last_played("None"): f.write(song), file closed on return
SeedSongWrite ==
  /\ lpc = "seed_song_w"
  /\ song' = "None"
  /\ lpc' = "seed_stat"
  /\ UNCHANGED <<args, entry, event, frequency, flags, clock, tick, launchLog, stat,
                 lyric, lastSwear, lyrics, workers, sent, killVars, crashed,
                 envVars, taskRuns, targv, usages>>

\* set_stat_file("Running"): open('.teq.stat', 'w')
SeedStatOpen ==
  /\ lpc = "seed_stat"
  /\ stat' = ""
  /\ lpc' = "seed_stat_w"
  /\ UNCHANGED <<args, entry, event, frequency, flags, clock, tick, launchLog, song,
                 lyric, lastSwear, lyrics, workers, sent, killVars, crashed,
                 envVars, taskRuns, targv, usages>>

\* a start that opens .teq.stat and writes nothing to it
SeedStatWriteNothing ==
  /\ lpc = "seed_stat_w"
  /\ stat' = stat
  /\ flags' = [t \in Tasks |-> TaskFlag(event, FlagOf(t))]
  /\ lpc' = "fire"
  /\ UNCHANGED <<args, entry, event, frequency, clock, tick, launchLog, song, lyric,
                 lastSwear, lyrics, workers, sent, killVars, crashed, envVars, taskRuns, targv, usages>>

\* set_stat_file("Running"): f.write(status); then get_last_played() and the
\* five task flags computed from event
SeedStatWrite ==
  /\ lpc = "seed_stat_w"
  /\ stat' = "Running"
  /\ flags' = [t \in Tasks |-> TaskFlag(event, FlagOf(t))]
  /\ lpc' = "fire"
  /\ UNCHANGED <<args, entry, event, frequency, clock, tick, launchLog, song, lyric,
                 lastSwear, lyrics, workers, sent, killVars, crashed, envVars, taskRuns, targv, usages>>

\* an iteration that puts the counter of a started task back to 0
FireResetsToZero ==
  /\ lpc = "fire"
  /\ tick < Horizon
  /\ \E k \in 0..Len(DueSeq) :
       LET started == SubSeq(DueSeq, 1, k)
           now == tick
       IN /\ workers' = Started(workers, started)
          /\ launchLog' = launchLog \o [i \in 1..k |-> <<now, started[i]>>]
          /\ clock' = [t \in Tasks |->
                         IF \E i \in 1..k : started[i] = t THEN 0 ELSE clock[t]]
          /\ lpc' = IF k = Len(DueSeq) THEN "sleep" ELSE "crashed"
  /\ UNCHANGED <<args, entry, event, frequency, flags, tick, fileVars, sent,
                 killVars, crashed, envVars, taskRuns, targv, usages>>

\* the five 'if <flag> and <clock> % <divisor> == 0' of one loop iteration.
\* spawn_task does not catch what subprocess.Popen raises: the first k due
\* tasks are started, and when k is not all of them the next Popen raised
\* and the exception leaves TeqBot.scheduler.
Fire ==
  /\ lpc = "fire"
  /\ tick < Horizon
  /\ \E k \in 0..Len(DueSeq) :
       LET started == SubSeq(DueSeq, 1, k)
           now == tick
       IN /\ workers' = Started(workers, started)
          /\ launchLog' = launchLog \o [i \in 1..k |-> <<now, started[i]>>]
          /\ clock' = [t \in Tasks |->
                         IF \E i \in 1..k : started[i] = t THEN 1 ELSE clock[t]]
          /\ lpc' = IF k = Len(DueSeq) THEN "sleep" ELSE "crashed"
  /\ UNCHANGED <<args, entry, event, frequency, flags, tick, fileVars, sent,
                 killVars, crashed, envVars, taskRuns, targv, usages>>

\* a loop that waits for the processes it started before it sleeps
SleepAwaits ==
  /\ lpc = "sleep"
  /\ workers = EmptyBag
  /\ tick' = tick + 1
  /\ clock' = [t \in Tasks |-> clock[t] + 1]
  /\ lpc' = "check"
  /\ UNCHANGED <<args, entry, event, frequency, flags, launchLog, fileVars,
                 workers, sent, killVars, crashed, envVars, taskRuns, targv, usages>>

\* time.sleep(1) and the five '+= 1'
Sleep ==
  /\ lpc = "sleep"
  /\ tick' = tick + 1
  /\ clock' = [t \in Tasks |-> clock[t] + 1]
  /\ lpc' = "check"
  /\ UNCHANGED <<args, entry, event, frequency, flags, launchLog, fileVars, workers,
                 sent, killVars, crashed, envVars, taskRuns, targv, usages>>

\* a comparison with the wrong sense
check_stat_file_ne(check) == stat # NoFile /\ stat # check

\* check_stat_file(check): False when the file is missing
check_stat_file(check) == stat # NoFile /\ stat = check

\* 'if self.check_stat_file("Done")'
Check ==
  /\ lpc = "check"
  /\ lpc' = IF check_stat_file("Done") THEN "delete" ELSE "fire"
  /\ UNCHANGED <<args, entry, event, frequency, flags, clock, tick, launchLog,
                 fileVars, workers, sent, killVars, crashed, envVars, taskRuns, targv, usages>>

\* self.delete_stat_file(); break
Delete ==
  /\ lpc = "delete"
  /\ stat' = NoFile
  /\ lpc' = "done"
  /\ UNCHANGED <<args, entry, event, frequency, flags, clock, tick, launchLog, song,
                 lyric, lastSwear, lyrics, workers, sent, killVars, crashed,
                 envVars, taskRuns, targv, usages>>

InLoop == lpc \in {"fire", "sleep", "check"}

\* ------------------------------------------------------------ kill command
\* command_handler, 'elif "KILL" in args': set_stat_file("Done"), the open
KillOpen ==
  /\ kpc = "idle"
  /\ kills < MaxKills
  /\ kills' = kills + 1
  /\ kpc' = "write"
  /\ stat' = ""
  /\ UNCHANGED <<schedVars, song, lyric, lastSwear, lyrics, workers, sent,
                 doneWritten, crashed, envVars, taskRuns, targv, usages>>

\* a kill that also puts the song marker back to its seed
KillWriteSeeds ==
  /\ kpc = "write"
  /\ kpc' = "idle"
  /\ stat' = "Done"
  /\ song' = "None"
  /\ doneWritten' = (doneWritten \/ InLoop)
  /\ UNCHANGED <<schedVars, lyric, lastSwear, lyrics, workers, sent,
                 kills, crashed, envVars, taskRuns, targv, usages>>

\* set_stat_file("Done"): f.write(status), file closed on return
KillWrite ==
  /\ kpc = "write"
  /\ kpc' = "idle"
  /\ stat' = "Done"
  /\ doneWritten' = (doneWritten \/ InLoop)
  /\ UNCHANGED <<schedVars, song, lyric, lastSwear, lyrics, workers, sent,
                 kills, crashed, envVars, taskRuns, targv, usages>>

\* ------------------------------------------------------ task_stream_status
\* a loop without the break: five pings, the last one decides
ProbeLoopNoBreak(o, i) == [online |-> o[ProbeAttempts], probes |-> ProbeAttempts]

\* 'for i in range(0, 5): online, msg = self.ping_stream(); if online: break'
\* over the outcomes o[1..5] of the pings; probes is the number of pings made.
\* The process keeps the outcomes of the pings it made until it branches on
\* online.
RECURSIVE ProbeLoop(_, _)
ProbeLoop(o, i) ==
  IF o[i] THEN [online |-> TRUE, probes |-> i]
  ELSE IF i = ProbeAttempts THEN [online |-> FALSE, probes |-> i]
  ELSE ProbeLoop(o, i + 1)

StProbe(w) ==
  /\ w.pc = "st_probe"
  /\ \E o \in [1..ProbeAttempts -> BOOLEAN] :
       LET r == ProbeLoop(o, 1)
       IN /\ workers' = Move(w, [w EXCEPT !.pc = IF r.online THEN "st_check" ELSE "st_diag",
                                          !.n = r.probes,
                                          !.data = SubSeq(o, 1, r.probes)])
          /\ inputs' = Noted(<<"status", IF r.online THEN "up" ELSE "down">>)
  /\ UNCHANGED <<schedVars, fileVars, sent, killVars, crashed, live, logged,
                 swear, changes, followed, start, taskRuns, targv, usages>>

\* an online branch that announces the stream without looking at .teq.stat
StCheckAlways(w) ==
  /\ w.pc = "st_check"
  /\ workers' = Move(w, [w EXCEPT !.pc = "st_up_open", !.n = 0, !.data = NoRecord])
  /\ UNCHANGED <<schedVars, fileVars, sent, killVars, crashed, envVars, taskRuns, targv, usages>>

\* an online branch that announces the stream whenever .teq.stat exists
StCheckAnyFile(w) ==
  /\ w.pc = "st_check"
  /\ workers' = IF stat # NoFile
                  THEN Move(w, [w EXCEPT !.pc = "st_up_open", !.n = 0, !.data = NoRecord])
                  ELSE Exit(w)
  /\ UNCHANGED <<schedVars, fileVars, sent, killVars, crashed, envVars, taskRuns, targv, usages>>

\* 'if self.check_stat_file("Stream Down")' of the online branch
StCheck(w) ==
  /\ w.pc = "st_check"
  /\ workers' = IF check_stat_file("Stream Down")
                  THEN Move(w, [w EXCEPT !.pc = "st_up_open", !.n = 0, !.data = NoRecord])
                  ELSE Exit(w)
  /\ UNCHANGED <<schedVars, fileVars, sent, killVars, crashed, envVars, taskRuns, targv, usages>>

\* set_stat_file("Running"): the open
StUpOpen(w) ==
  /\ w.pc = "st_up_open"
  /\ stat' = ""
  /\ workers' = Move(w, [w EXCEPT !.pc = "st_up_write"])
  /\ UNCHANGED <<schedVars, song, lyric, lastSwear, lyrics, sent, killVars,
                 crashed, envVars, taskRuns, targv, usages>>

\* set_stat_file("Running"): the write
StUpWrite(w) ==
  /\ w.pc = "st_up_write"
  /\ stat' = "Running"
  /\ workers' = Move(w, [w EXCEPT !.pc = "st_up_msg"])
  /\ UNCHANGED <<schedVars, song, lyric, lastSwear, lyrics, sent, killVars,
                 crashed, envVars, taskRuns, targv, usages>>

\* teq_message("The Stream is Back Online!", "engineering", ROBOT_EMOJI)
StUpMsg(w) ==
  /\ w.pc = "st_up_msg"
  /\ sent' = Emit(<<"engineering", "back online">>)
  /\ workers' = Exit(w)
  /\ UNCHANGED <<schedVars, fileVars, killVars, crashed, envVars, taskRuns, targv, usages>>

\* an offline branch that reports an incident once, not on every firing
StDiagOnce(w) ==
  /\ w.pc = "st_diag"
  /\ sent' = IF check_stat_file("Stream Down") THEN sent
             ELSE Emit(<<"engineering", "diagnostic">>)
  /\ workers' = Move(w, [w EXCEPT !.pc = "st_down_open", !.n = 0,
                                 !.data = NoRecord])
  /\ UNCHANGED <<schedVars, fileVars, killVars, crashed, envVars, taskRuns, targv, usages>>

\* teq_message(msg, "engineering", SKULL_EMOJI) of the offline branch
StDiag(w) ==
  /\ w.pc = "st_diag"
  /\ sent' = Emit(<<"engineering", "diagnostic">>)
  /\ workers' = Move(w, [w EXCEPT !.pc = "st_down_open", !.n = 0,
                                 !.data = NoRecord])
  /\ UNCHANGED <<schedVars, fileVars, killVars, crashed, envVars, taskRuns, targv, usages>>

\* set_stat_file("Stream Down"): the open
StDownOpen(w) ==
  /\ w.pc = "st_down_open"
  /\ stat' = ""
  /\ workers' = Move(w, [w EXCEPT !.pc = "st_down_write"])
  /\ UNCHANGED <<schedVars, song, lyric, lastSwear, lyrics, sent, killVars,
                 crashed, envVars, taskRuns, targv, usages>>

\* set_stat_file("Stream Down"): the write
StDownWrite(w) ==
  /\ w.pc = "st_down_write"
  /\ stat' = "Stream Down"
  /\ workers' = Exit(w)
  /\ UNCHANGED <<schedVars, song, lyric, lastSwear, lyrics, sent, killVars,
                 crashed, envVars, taskRuns, targv, usages>>

task_stream_status(w) ==
  \/ StProbe(w) \/ StCheck(w) \/ StUpOpen(w) \/ StUpWrite(w) \/ StUpMsg(w)
  \/ StDiag(w) \/ StDownOpen(w) \/ StDownWrite(w)

\* -------------------------------------------------------- task_now_playing
\* get_last_played(), the print, and 'if os.path.exists('.teq.song')' with
\* the open of check_last_played; .teq.song is never removed
NpStart(w) ==
  /\ w.pc = "np_start"
  /\ workers' = IF song = NoFile THEN Exit(w)
                ELSE Move(w, [w EXCEPT !.pc = "np_fetch"])
  /\ inputs' = Noted(<<"nowplaying", live>>)
  /\ UNCHANGED <<schedVars, fileVars, sent, killVars, crashed, live, logged,
                 swear, changes, followed, start, taskRuns, targv, usages>>

\* check = self.get_now_playing()
NpFetch(w) ==
  /\ w.pc = "np_fetch"
  /\ workers' = Move(w, [w EXCEPT !.pc = "np_read", !.val = live])
  /\ inputs' = Noted(<<"check", live>>)
  /\ UNCHANGED <<schedVars, fileVars, sent, killVars, crashed, live, logged,
                 swear, changes, followed, start, taskRuns, targv, usages>>

\* the comparison of the second branch with the wrong sense
NewSongEq(check, marker) == marker = "None" \/ check = marker

\* song = f.read() and the comparison of check_last_played
NewSong(check, marker) == marker = "None" \/ check # marker

\* a comparison that stores nothing: the new song is announced at once
NpReadNoStore(w) ==
  /\ w.pc = "np_read"
  /\ workers' = IF NewSong(w.val, song)
                  THEN Move(w, [w EXCEPT !.pc = "np_msg"])
                  ELSE Exit(w)
  /\ UNCHANGED <<schedVars, fileVars, sent, killVars, crashed, envVars, taskRuns, targv, usages>>

NpRead(w) ==
  /\ w.pc = "np_read"
  /\ workers' = IF NewSong(w.val, song)
                  THEN Move(w, [w EXCEPT !.pc = "np_open"])
                  ELSE Exit(w)
  /\ UNCHANGED <<schedVars, fileVars, sent, killVars, crashed, envVars, taskRuns, targv, usages>>

\* set_last_played(check): the open
NpOpen(w) ==
  /\ w.pc = "np_open"
  /\ song' = ""
  /\ workers' = Move(w, [w EXCEPT !.pc = "np_write"])
  /\ UNCHANGED <<schedVars, stat, lyric, lastSwear, lyrics, sent, killVars,
                 crashed, envVars, taskRuns, targv, usages>>

\* set_last_played(check): the write
NpWrite(w) ==
  /\ w.pc = "np_write"
  /\ song' = w.val
  /\ workers' = Move(w, [w EXCEPT !.pc = "np_msg"])
  /\ UNCHANGED <<schedVars, stat, lyric, lastSwear, lyrics, sent, killVars,
                 crashed, envVars, taskRuns, targv, usages>>

\* teq_message(self.now_playing(self.lastSong), "nowplaying", MUSIC_EMOJI)
NpMsg(w) ==
  /\ w.pc = "np_msg"
  /\ sent' = Emit(<<"nowplaying", w.val>>)
  /\ workers' = Move(w, [w EXCEPT !.pc = "np_tunein"])
  /\ UNCHANGED <<schedVars, fileVars, killVars, crashed, envVars, taskRuns, targv, usages>>

\* metadata.split("__by__", 1): the track t1 reads "<song>__by__<artist>", the
\* track t2 is a text without the separator (as the message ping_stream
\* returns while the stream is down)
split(metadata) ==
  IF metadata = "t1" THEN <<"song", "artist">> ELSE <<metadata>>

\* tunein.parseMetadata(metadata): artist is None when nothing was split off,
\* and urllib.parse.quote_plus(None) raises TypeError
parseMetadata(metadata) ==
  IF Len(split(metadata)) > 1
    THEN [raised |-> FALSE, song |-> split(metadata)[1], artist |-> split(metadata)[2]]
    ELSE [raised |-> TRUE, song |-> split(metadata)[1], artist |-> "None"]

\* self.tunein(self.lastSong): tunein.post, parseMetadata then requests.get
NpTunein(w) ==
  /\ w.pc = "np_tunein"
  /\ IF parseMetadata(w.val).raised
       THEN sent' = sent /\ crashed' = TRUE
       ELSE sent' = Emit(<<"tunein", w.val>>) /\ crashed' = crashed
  /\ workers' = Exit(w)
  /\ UNCHANGED <<schedVars, fileVars, killVars, envVars, taskRuns, targv, usages>>

task_now_playing(w) ==
  \/ NpStart(w) \/ NpFetch(w) \/ NpRead(w) \/ NpOpen(w) \/ NpWrite(w)
  \/ NpMsg(w) \/ NpTunein(w)

\* ------------------------------------------------------- task_check_lyrics
\* np = self.get_now_playing_logger()
LyNp(w) ==
  /\ w.pc = "ly_np"
  /\ workers' = Move(w, [w EXCEPT !.pc = "ly_last", !.val = logged])
  /\ inputs' = Noted(<<"lyric", logged>>)
  /\ UNCHANGED <<schedVars, fileVars, sent, killVars, crashed, live, logged,
                 swear, changes, followed, start, taskRuns, targv, usages>>

\* a getter that reads the marker of the other task, .teq.song
get_last_lyric_song == IF song = NoFile THEN "" ELSE song

\* get_last_lyric(): '' when .teq.lyric is missing
get_last_lyric == IF lyric = NoFile THEN "" ELSE lyric

\* last = self.get_last_lyric(); 'if np != last'
LyLast(w) ==
  /\ w.pc = "ly_last"
  /\ workers' = IF w.val # get_last_lyric
                  THEN Move(w, [w EXCEPT !.pc = "ly_open"])
                  ELSE Exit(w)
  /\ UNCHANGED <<schedVars, fileVars, sent, killVars, crashed, envVars, taskRuns, targv, usages>>

\* set_last_lyric(np): the open
LyOpen(w) ==
  /\ w.pc = "ly_open"
  /\ lyric' = ""
  /\ workers' = Move(w, [w EXCEPT !.pc = "ly_write"])
  /\ UNCHANGED <<schedVars, stat, song, lastSwear, lyrics, sent, killVars,
                 crashed, envVars, taskRuns, targv, usages>>

\* a write of the track through set_last_played, into .teq.song
LyWriteSong(w) ==
  /\ w.pc = "ly_write"
  /\ song' = w.val
  /\ workers' = Move(w, [w EXCEPT !.pc = "ly_search"])
  /\ UNCHANGED <<schedVars, stat, lyric, lastSwear, lyrics, sent, killVars,
                 crashed, envVars, taskRuns, targv, usages>>

\* set_last_lyric(np): the write
LyWrite(w) ==
  /\ w.pc = "ly_write"
  /\ lyric' = w.val
  /\ workers' = Move(w, [w EXCEPT !.pc = "ly_search"])
  /\ UNCHANGED <<schedVars, stat, song, lastSwear, lyrics, sent, killVars,
                 crashed, envVars, taskRuns, targv, usages>>

\* ---------------------------------------------------------------- genius.py
SONG_HAS_SWEARS == 0
SONG_SWEAR_FREE == 1
SONG_NOT_FOUND == 2

\* what one search meets: whether get_api_path finds the song, the codes
\* clean_test_01 and clean_test_02 return on its lyrics, and the number of
\* times the text "FAIL" stands in the song name, the artist and the lyrics
Searches ==
  {[found |-> FALSE, tests |-> <<>>, words |-> 0]}
    \cup {[found |-> TRUE, tests |-> <<a, b>>, words |-> x] :
            a \in {SONG_HAS_SWEARS, SONG_SWEAR_FREE, SONG_NOT_FOUND},
            b \in {SONG_HAS_SWEARS, SONG_SWEAR_FREE},
            x \in 0..MaxFailWords}

\* test_code(code, number) starts with "FAIL" for SONG_HAS_SWEARS only;
\* report.count("FAIL") over the report of generate_report
FailCount(s) ==
  Cardinality({i \in 1..Len(s.tests) : s.tests[i] = SONG_HAS_SWEARS}) + s.words

\* genius.run(song, artist, bad_words, auth): the boolean it returns
run(s) ==
  IF ~s.found THEN TRUE
  ELSE IF FailCount(s) > 1 THEN FALSE ELSE TRUE

\* msg, clean = genius.run(song, artist, bad_words, self.geniusToken); what
\* the search met is kept, like inputs, for the commands typed one after
\* another
LySearch(w) ==
  /\ w.pc = "ly_search"
  /\ \E s \in Searches :
       LET clean == run(s)
       IN /\ workers' = Move(w, [w EXCEPT !.pc = IF clean THEN "ly_post" ELSE "ly_msg",
                                          !.data = IF start.kept THEN s
                                                   ELSE NoRecord])
          /\ inputs' = Noted(<<"search", IF clean THEN "clean" ELSE "not clean">>)
  /\ UNCHANGED <<schedVars, fileVars, sent, killVars, crashed, live, logged,
                 swear, changes, followed, start, taskRuns, targv, usages>>

\* 'if not clean: self.teq_message(warning_msg, "engineering", SKULL_EMOJI)'
LyMsg(w) ==
  /\ w.pc = "ly_msg"
  /\ sent' = Emit(<<"lyric warning", w.val>>)
  /\ workers' = Move(w, [w EXCEPT !.pc = "ly_post", !.data = NoRecord])
  /\ UNCHANGED <<schedVars, fileVars, killVars, crashed, envVars, taskRuns, targv, usages>>

\* self.post_lyrics(msg): the open of lyrics.txt
LyPost(w) ==
  /\ w.pc = "ly_post"
  /\ lyrics' = ""
  /\ workers' = Move(w, [w EXCEPT !.pc = "ly_post_write", !.data = NoRecord])
  /\ UNCHANGED <<schedVars, stat, song, lyric, lastSwear, sent, killVars,
                 crashed, envVars, taskRuns, targv, usages>>

\* self.post_lyrics(msg): ly.write(lyrics), the report of the song np
LyPostWrite(w) ==
  /\ w.pc = "ly_post_write"
  /\ lyrics' = w.val
  /\ workers' = Exit(w)
  /\ UNCHANGED <<schedVars, stat, song, lyric, lastSwear, sent, killVars,
                 crashed, envVars, taskRuns, targv, usages>>

task_check_lyrics(w) ==
  \/ LyNp(w) \/ LyLast(w) \/ LyOpen(w) \/ LyWrite(w) \/ LySearch(w)
  \/ LyMsg(w) \/ LyPost(w) \/ LyPostWrite(w)

\* ------------------------------------------------------------------ log.py
\* a comparison of the keys that forgets the values
compare_json_keys(json1, json2) ==
  /\ \A key \in DOMAIN json1 : key \in DOMAIN json2
  /\ \A key \in DOMAIN json2 : key \in DOMAIN json1

\* the first of the two loops alone
compare_json_first(json1, json2) ==
  \A key \in DOMAIN json1 : key \in DOMAIN json2 /\ json1[key] = json2[key]

\* log.compare_json(json1, json2)
compare_json(json1, json2) ==
  /\ \A key \in DOMAIN json1 : key \in DOMAIN json2 /\ json1[key] = json2[key]
  /\ \A key \in DOMAIN json2 : key \in DOMAIN json1 /\ json2[key] = json1[key]

fields == <<"date", "time", "song title", "song artist", "song composer",
            "show name", "report">>

\* log.validate(data, LOG_SWEAR): the 'return True' is inside the for loop
validate(data) ==
  IF Len(fields) = 0 THEN FALSE
  ELSE IF fields[1] \notin DOMAIN data THEN FALSE ELSE TRUE

\* the keys log.generate_swear_log reads from data
MsgKeys == {"show name", "date", "time", "song title", "song artist",
            "song composer", "report"}

\* ---------------------------------------------------------- task_swear_log
NoJson == [state |-> "missing", data |-> NoRecord]
EmptyJson == [state |-> "empty", data |-> NoRecord]
Json(d) == [state |-> "json", data |-> d]

\* data = log.read_json(<swear.json>)
SwData(w) ==
  /\ w.pc = "sw_data"
  /\ workers' = Move(w, [w EXCEPT !.pc = "sw_last", !.data = swear])
  /\ inputs' = Noted(<<"swear", swear>>)
  /\ UNCHANGED <<schedVars, fileVars, sent, killVars, crashed, live, logged,
                 swear, changes, followed, start, taskRuns, targv, usages>>

\* lastSwear = log.read_json(<lastSwear.json>), which raises when the file is
\* missing or empty; 'if not log.compare_json(data, lastSwear)'
SwLast(w) ==
  /\ w.pc = "sw_last"
  /\ IF lastSwear.state # "json"
       THEN workers' = Exit(w) /\ crashed' = TRUE
       ELSE /\ workers' = IF ~compare_json(w.data, lastSwear.data)
                            THEN Move(w, [w EXCEPT !.pc = "sw_open"])
                            ELSE Exit(w)
            /\ UNCHANGED crashed
  /\ UNCHANGED <<schedVars, fileVars, sent, killVars, envVars, taskRuns, targv, usages>>

\* log.write_json(data, filename): the open
SwOpen(w) ==
  /\ w.pc = "sw_open"
  /\ lastSwear' = EmptyJson
  /\ workers' = Move(w, [w EXCEPT !.pc = "sw_write"])
  /\ UNCHANGED <<schedVars, stat, song, lyric, lyrics, sent, killVars,
                 crashed, envVars, taskRuns, targv, usages>>

\* log.write_json(data, filename): json.dump and the close
SwWrite(w) ==
  /\ w.pc = "sw_write"
  /\ lastSwear' = Json(w.data)
  /\ workers' = Move(w, [w EXCEPT !.pc = "sw_msg"])
  /\ UNCHANGED <<schedVars, stat, song, lyric, lyrics, sent, killVars,
                 crashed, envVars, taskRuns, targv, usages>>

\* swear_msg = log.generate_swear_log(data), which raises KeyError on a key
\* that validate let through; 'if swear_msg: self.teq_message(...)'
SwMsg(w) ==
  /\ w.pc = "sw_msg"
  /\ workers' = Exit(w)
  /\ IF ~validate(w.data)
       THEN UNCHANGED <<sent, crashed>>
       ELSE IF MsgKeys \subseteq DOMAIN w.data
         THEN sent' = Emit(<<"swear log", w.data>>) /\ UNCHANGED crashed
         ELSE crashed' = TRUE /\ UNCHANGED sent
  /\ UNCHANGED <<schedVars, fileVars, killVars, envVars, taskRuns, targv, usages>>

task_swear_log(w) ==
  \/ SwData(w) \/ SwLast(w) \/ SwOpen(w) \/ SwWrite(w) \/ SwMsg(w)

\* -------------------------------------------------------- task_update_repo
\* self.spawn_task("/usr/bin/git pull")
task_update_repo(w) ==
  /\ w.pc = "up_pull"
  /\ workers' = Exit(w)
  /\ UNCHANGED <<schedVars, fileVars, sent, killVars, crashed, envVars, taskRuns, targv, usages>>

\* an uncaught exception (network, file, environment) ends a task process
WorkerCrash(w) ==
  /\ workers' = Exit(w)
  /\ crashed' = TRUE
  /\ UNCHANGED <<schedVars, fileVars, sent, killVars, envVars, taskRuns, targv, usages>>

\* ------------------------------------------------------------ task command
TaskArgs == { <<"-n">>, <<"--status">>, <<"--lyric">>, <<"-w">>, <<"-u">>,
              <<"-s", "-n">>, <<"--bogus">> }

\* a dispatch on the first token of the command line only
TaskOfFirstToken(a) ==
  IF Len(a) = 0 THEN "none"
  ELSE IF a[1] \in {"--nowplaying", "-n"} THEN "nowplaying"
  ELSE IF a[1] \in {"--status", "-s"} THEN "status"
  ELSE IF a[1] \in {"--lyric", "-l"} THEN "lyric"
  ELSE IF a[1] \in {"--swear", "-w"} THEN "swear"
  ELSE IF a[1] \in {"--update", "-u"} THEN "update"
  ELSE "none"

\* the if/elif chain of 'elif "TASK" in args'
TaskOf(a) ==
  IF InArgs("--nowplaying", a) \/ InArgs("-n", a) THEN "nowplaying"
  ELSE IF InArgs("--status", a) \/ InArgs("-s", a) THEN "status"
  ELSE IF InArgs("--lyric", a) \/ InArgs("-l", a) THEN "lyric"
  ELSE IF InArgs("--swear", a) \/ InArgs("-w", a) THEN "swear"
  ELSE IF InArgs("--update", a) \/ InArgs("-u", a) THEN "update"
  ELSE "none"

\* command_handler, 'elif "TASK" in args': the process of the command runs
\* the task body
TaskCommand ==
  /\ taskRuns < MaxTaskRuns
  /\ BagCardinality(workers) < MaxWorkers
  /\ taskRuns' = taskRuns + 1
  /\ \E a \in TaskArgs :
       /\ TaskOf(a) \in followed \cup {"none"}
       /\ targv' = a
       /\ workers' = IF TaskOf(a) = "none"
                       THEN workers
                       ELSE workers (+) SetToBag({NewWorker(TaskOf(a))})
  /\ UNCHANGED <<schedVars, fileVars, sent, killVars, crashed, envVars, usages>>

\* ----------------------------------------------------------- usage command
\* command_handler, 'if "USAGE" in args': print( usage() )
UsageCommand ==
  /\ usages < MaxUsages
  /\ usages' = usages + 1
  /\ UNCHANGED <<schedVars, fileVars, workers, sent, killVars, crashed, envVars,
                 taskRuns, targv>>

\* ------------------------------------------------------------- environment
\* only a change that a followed task reads is explored
Tracks == {"t1", "t2"}

Record(report) == [k \in MsgKeys |-> IF k = "report" THEN report ELSE "x"]
Without(r, key) == [k \in DOMAIN r \ {key} |-> r[k]]

SwearRecords == { Record("r1"), Record("r2"), Without(Record("r1"), "date"),
                  Without(Record("r1"), "time") }

\* the stream moves on to another track
LiveChange ==
  /\ "nowplaying" \in followed
  /\ changes < MaxChanges
  /\ changes' = changes + 1
  /\ \E t \in Tracks \ {live} : live' = t
  /\ UNCHANGED <<schedVars, fileVars, workers, sent, killVars, crashed,
                 logged, swear, taskRuns, targv, usages, followed, start, inputs>>

\* the song logger rewrites nowPlaying.txt
LoggedChange ==
  /\ "lyric" \in followed
  /\ changes < MaxChanges
  /\ changes' = changes + 1
  /\ \E t \in Tracks \ {logged} : logged' = t
  /\ UNCHANGED <<schedVars, fileVars, workers, sent, killVars, crashed,
                 live, swear, taskRuns, targv, usages, followed, start, inputs>>

\* the song logger rewrites swear.json
SwearChange ==
  /\ "swear" \in followed
  /\ changes < MaxChanges
  /\ changes' = changes + 1
  /\ \E r \in SwearRecords \ {swear} : swear' = r
  /\ UNCHANGED <<schedVars, fileVars, workers, sent, killVars, crashed,
                 live, logged, taskRuns, targv, usages, followed, start, inputs>>

\* ---------------------------------------------------------- specifications
Followed == { {"status"}, {"nowplaying"}, {"lyric"}, {"swear", "update"} }

\* start and inputs are recorded for the task commands typed one after another
NotRecorded == [kept |-> FALSE]

NoneSent == [m \in {} |-> 0]

InitRun ==
  /\ args \in SchedArgs
  /\ entry = "none"
  /\ event = <<>>
  /\ frequency = 0
  /\ lpc = "idle"
  /\ flags = NoFlags
  /\ clock = ZeroClock
  /\ tick = 0
  /\ launchLog = <<>>
  /\ stat \in {NoFile, "Stream Down", "Done"}
  /\ song \in {NoFile, "t1"}
  /\ lyric = NoFile
  /\ lastSwear = Json(Record("r1"))
  /\ lyrics = NoFile
  /\ workers = EmptyBag
  /\ sent = NoneSent
  /\ kpc = "idle"
  /\ kills = 0
  /\ doneWritten = FALSE
  /\ crashed = FALSE
  /\ live = "t1"
  /\ logged = "t1"
  /\ swear = Record("r2")
  /\ changes = 0
  /\ taskRuns = 0
  /\ targv = <<>>
  /\ usages = 0
  /\ start = NotRecorded
  /\ inputs = <<>>

Init == InitRun /\ followed \in Followed

Scheduler ==
  \/ CommandScheduler \/ ApiScheduler
  \/ SeedSongOpen \/ SeedSongWrite \/ SeedStatOpen \/ SeedStatWrite
  \/ Fire \/ Sleep \/ Check \/ Delete

Kill == KillOpen \/ KillWrite

Worker ==
  \E w \in Running :
    \/ task_stream_status(w)
    \/ task_now_playing(w)
    \/ task_check_lyrics(w)
    \/ task_swear_log(w)
    \/ task_update_repo(w)
    \/ WorkerCrash(w)

Next == Scheduler \/ Kill \/ Worker

Spec == Init /\ [][Next]_vars

\* the task bodies run as 'teqbot task ...' commands, with no scheduler; the
\* files of a task that is not followed start missing
Among(t, values, other) == IF t \in followed THEN values ELSE {other}

InitTask ==
  /\ args = <<>>
  /\ entry = "none"
  /\ event = <<>>
  /\ frequency = 0
  /\ lpc = "idle"
  /\ flags = NoFlags
  /\ clock = ZeroClock
  /\ tick = 0
  /\ launchLog = <<>>
  /\ followed \in Followed
  /\ stat \in Among("status", {NoFile, "Running", "Stream Down"}, NoFile)
  /\ song \in Among("nowplaying", {NoFile, "None", "t1"}, NoFile)
  /\ lyric \in Among("lyric", {NoFile, "t1"}, NoFile)
  /\ lastSwear \in Among("swear", {NoJson, Json(Record("r1"))}, NoJson)
  /\ lyrics = NoFile
  /\ workers = EmptyBag
  /\ sent = NoneSent
  /\ kpc = "idle"
  /\ kills = 0
  /\ doneWritten = FALSE
  /\ crashed = FALSE
  /\ live = "t1"
  /\ logged = "t1"
  /\ swear = Record("r1")
  /\ changes = 0
  /\ taskRuns = 0
  /\ targv = <<>>
  /\ usages = 0
  /\ start = NotRecorded
  /\ inputs = <<>>

Environment == LiveChange \/ LoggedChange \/ SwearChange

NextTask == TaskCommand \/ Worker \/ Environment

SpecTask == InitTask /\ [][NextTask]_vars

\* the scheduler command on every command line of at most MaxArgs tokens,
\* up to the first iteration of the loop
Tokens == { "--nowplaying", "-n", "--status", "-s", "--lyric", "-l",
            "--swear", "-w", "--update", "-u", "--bogus", "-x" }

ArgLists == UNION { [1..n -> Tokens] : n \in 0..MaxArgs }

InitDecode ==
  /\ args \in ArgLists
  /\ entry = "none"
  /\ event = <<>>
  /\ frequency = 0
  /\ lpc = "idle"
  /\ flags = NoFlags
  /\ clock = ZeroClock
  /\ tick = 0
  /\ launchLog = <<>>
  /\ stat = NoFile
  /\ song = NoFile
  /\ lyric = NoFile
  /\ lastSwear = NoJson
  /\ lyrics = NoFile
  /\ workers = EmptyBag
  /\ sent = NoneSent
  /\ kpc = "idle"
  /\ kills = 0
  /\ doneWritten = FALSE
  /\ crashed = FALSE
  /\ live = "t1"
  /\ logged = "t1"
  /\ swear = Record("r1")
  /\ changes = 0
  /\ taskRuns = 0
  /\ targv = <<>>
  /\ usages = 0
  /\ followed = {}
  /\ start = NotRecorded
  /\ inputs = <<>>

NextDecode ==
  \/ CommandScheduler
  \/ SeedSongOpen \/ SeedSongWrite \/ SeedStatOpen \/ SeedStatWrite

SpecDecode == InitDecode /\ [][NextDecode]_vars

\* ------------------------------------------------------ sequential commands
\* the steps of the task bodies themselves
Body ==
  \E w \in Running :
    \/ task_stream_status(w)
    \/ task_now_playing(w)
    \/ task_check_lyrics(w)
    \/ task_swear_log(w)
    \/ task_update_repo(w)

\* 'teqbot task ...' typed when the command before it has returned
TaskCommandSeq == workers = EmptyBag /\ TaskCommand

\* task, kill and usage commands; the task commands one after another
NextKill == TaskCommandSeq \/ Body \/ Kill \/ UsageCommand

SpecKill == InitTask /\ [][NextKill]_vars

\* the loop alone, its task processes not followed, and never killed
InitLoop ==
  InitRun /\ followed = {} /\ args = <<>> /\ stat = NoFile /\ song = NoFile

NextLoop ==
  \/ CommandScheduler \/ ApiScheduler
  \/ SeedSongOpen \/ SeedSongWrite \/ SeedStatOpen \/ SeedStatWrite
  \/ Fire \/ Sleep \/ Check

SpecLoop == InitLoop /\ [][NextLoop]_vars

\* a step of a StreamHealth process
StreamHealth == \E w \in Running : task_stream_status(w)

\* 'scheduler -s' typed among StreamHealth task commands, and never killed
InitCmd ==
  Init /\ followed = {"status"} /\ args = <<"-s">> /\ stat = NoFile /\ song = NoFile

NextCmd ==
  \/ CommandScheduler
  \/ SeedSongOpen \/ SeedSongWrite \/ SeedStatOpen \/ SeedStatWrite
  \/ Fire \/ Sleep \/ Check
  \/ StreamHealth \/ TaskCommand

SpecCmd == InitCmd /\ [][NextCmd]_vars

\* ------------------------------------------------------------------ claims
\* the ticks at which task t was launched, in order
Firings(t) ==
  LET mine == SelectSeq(launchLog, LAMBDA e : e[2] = t)
  IN [i \in 1..Len(mine) |-> mine[i][1]]

\* C1: whenever a kill command has stored Done while the loop was running,
\* the loop leaves its next post-sleep check of .teq.stat by terminating.
C1_DoneEndsLoopAtNextCheck ==
  [][(doneWritten /\ lpc = "check" /\ lpc' # "check") => lpc' = "delete"]_vars

\* C2: once the loop has returned on observing Done, .teq.stat does not
\* exist in any later state and no task is launched any more.
C2_NoMarkerAfterReturn ==
  /\ [](lpc = "done" => stat = NoFile)
  /\ [][lpc = "done" => launchLog' = launchLog]_vars

\* C3: the loop ends only by reading Done at its check; neither an error in
\* a task process nor a failing spawn ends it.
C3_LoopEndsOnlyOnDone ==
  [][(InLoop /\ ~InLoop') => (lpc = "check" /\ stat = "Done")]_vars

\* C4: a task fires first on tick 0 and any two consecutive firings of a task
\* with divisor d are exactly d ticks apart.
C4_PeriodIsDivisor ==
  \A t \in Tasks :
    LET f == Firings(t)
    IN /\ Len(f) > 0 => f[1] = 0
       /\ \A i \in 1..(Len(f) - 1) : f[i + 1] - f[i] = Divisor(t)

\* every due task is started and the loop goes on to its sleep
FireAll == Fire /\ lpc' = "sleep"

\* C5: whatever the task processes are doing (running, stuck, crashed), the
\* loop can take its next step: start every due task, sleep and advance the
\* counters, poll .teq.stat.
C5_LoopNeverWaits ==
  /\ (lpc = "fire" /\ tick < Horizon) => ENABLED FireAll
  /\ lpc = "sleep" => ENABLED Sleep
  /\ lpc = "check" => ENABLED Check

\* C5 witness: the loop has gone through two ticks and launched again while
\* a process it started sits at its first step and another has crashed.
C5_Witness ==
  /\ InLoop /\ tick >= 2 /\ crashed
  /\ \E w \in Running : w.pc = StartPc(w.task)
  /\ \E i \in 1..Len(launchLog) : launchLog[i][1] >= 2

Notifications == {"nowplaying", "tunein", "lyric warning", "swear log"}

\* C6: with the upstream value changing at most once, no value is notified,
\* published or relayed more than once by SongChange, LyricCheck and
\* SwearLogRelay, however the task processes interleave.
C6_AtMostOncePerValue ==
  \A m \in DOMAIN sent : m[1] \in Notifications => sent[m] <= 1

\* bit k (0 = lowest) of the event string
RECURSIVE Pow2(_)
Pow2(k) == IF k = 0 THEN 1 ELSE 2 * Pow2(k - 1)
BitNo(t) ==
  CASE t = "nowplaying" -> 0
    [] t = "status"     -> 1
    [] t = "lyric"      -> 2
    [] t = "swear"      -> 3
    [] t = "update"     -> 7
HasBit(e, k) == (BinToInt(e) \div Pow2(k)) % 2 = 1

FirstFireOver == lpc \in {"sleep", "check", "delete", "done", "crashed"}

\* C7: only a task whose bit is set in the mask is ever launched, and every
\* task whose bit is set is launched on the first tick.
C7_MaskGatesLaunch ==
  /\ \A i \in 1..Len(launchLog) : HasBit(event, BitNo(launchLog[i][2]))
  /\ FirstFireOver =>
       \A t \in Tasks : HasBit(event, BitNo(t)) =>
         \E i \in 1..Len(launchLog) : launchLog[i] = <<0, t>>

\* C8: the scheduler command with no task token runs the loop with the
\* all-ones mask, every task enabled.
C8_NoTokensRunsEverything ==
  (entry = "command" /\ args = <<>> /\ lpc = "fire") =>
    /\ event = DefaultEvent
    /\ \A t \in Tasks : flags[t] # 0

Aliases(t) ==
  CASE t = "nowplaying" -> {"--nowplaying", "-n"}
    [] t = "status"     -> {"--status", "-s"}
    [] t = "lyric"      -> {"--lyric", "-l"}
    [] t = "swear"      -> {"--swear", "-w"}
    [] t = "update"     -> {"--update", "-u"}

Requested(a) == {t \in Tasks : \E i \in 1..Len(a) : a[i] \in Aliases(t)}

ZeroRun == entry = "command" /\ Len(args) > 0 /\ Requested(args) = {}

\* C9: the scheduler command with tokens none of which is a task flag gets
\* the all-zero mask, launches nothing, keeps a stored Done until the loop
\* reads it, and ends at the check that reads Done.
C9_ZeroMaskRun ==
  /\ [](ZeroRun => /\ BinToInt(event) = 0
                   /\ launchLog = <<>>
                   /\ (InLoop /\ doneWritten /\ kpc = "idle") => stat = "Done")
  /\ [][(ZeroRun /\ lpc = "check" /\ lpc' # "check" /\ stat = "Done")
          => lpc' = "delete"]_vars
  /\ [][(ZeroRun /\ lpc = "delete" /\ lpc' # "delete")
          => (lpc' = "done" /\ stat' = NoFile)]_vars

\* C9 witness: a zero-mask run that ticked, read Done and returned.
C9_Witness ==
  /\ ZeroRun /\ lpc = "done" /\ tick >= 2 /\ doneWritten
  /\ launchLog = <<>> /\ stat = NoFile

RECURSIVE SumWeights(_)
SumWeights(ts) ==
  IF ts = {} THEN 0
  ELSE LET t == CHOOSE x \in ts : TRUE
       IN Pow2(BitNo(t)) + SumWeights(ts \ {t})

\* C10: the decoded mask is the OR of the bits of the task flags that occur
\* in the command line, under either alias, whatever their order, their
\* repetitions and the unknown tokens among them.
C10_MaskOfFlagSet ==
  (entry = "command" /\ lpc # "idle") =>
    /\ BinToInt(event) = SumWeights(Requested(args))
    /\ lpc = "fire" => \A t \in Tasks : (flags[t] # 0) <=> (t \in Requested(args))

\* C10 witness: a short and a long alias of one flag around an unknown token.
C10_Witness ==
  /\ lpc = "fire" /\ args = <<"-s", "--bogus", "--status">>
  /\ flags["status"] # 0 /\ flags["nowplaying"] = 0

\* ---------------------------------------------------------------- round trip
\* a mask as the string of its eight flags, UPDATE_REPO first
Masks == [1..8 -> {0, 1}]

\* the masks with no reserved flag (OPTION_5, OPTION_6, OPTION_7) set
TaskMasks == {m \in Masks : m[2] = 0 /\ m[3] = 0 /\ m[4] = 0}

\* the command lines that name, in the order of the token tests and under
\* either alias, exactly the tasks whose flag is set in m
RECURSIVE EncodingsFrom(_, _)
EncodingsFrom(m, i) ==
  IF i > Len(Order) THEN {<<>>}
  ELSE LET rest == EncodingsFrom(m, i + 1)
       IN IF HasBit(m, BitNo(Order[i]))
            THEN {<<a>> \o r : a \in Aliases(Order[i]), r \in rest}
            ELSE rest

Encodings(m) == EncodingsFrom(m, 1)

\* the scheduler command on the encodings of all masks
InitRound ==
  /\ args \in UNION {Encodings(m) : m \in Masks}
  /\ entry = "none"
  /\ event = <<>>
  /\ frequency = 0
  /\ lpc = "idle"
  /\ flags = NoFlags
  /\ clock = ZeroClock
  /\ tick = 0
  /\ launchLog = <<>>
  /\ stat = NoFile
  /\ song = NoFile
  /\ lyric = NoFile
  /\ lastSwear = NoJson
  /\ lyrics = NoFile
  /\ workers = EmptyBag
  /\ sent = NoneSent
  /\ kpc = "idle"
  /\ kills = 0
  /\ doneWritten = FALSE
  /\ crashed = FALSE
  /\ live = "t1"
  /\ logged = "t1"
  /\ swear = Record("r1")
  /\ changes = 0
  /\ taskRuns = 0
  /\ targv = <<>>
  /\ usages = 0
  /\ followed = {}
  /\ start = NotRecorded
  /\ inputs = <<>>

SpecRound == InitRound /\ [][NextDecode]_vars

RoundTrip(m) ==
  (args \in Encodings(m) /\ entry = "command" /\ lpc # "idle") =>
    /\ BinToInt(event) = BinToInt(m)
    /\ lpc = "fire" => \A t \in Tasks : (flags[t] # 0) <=> HasBit(m, BitNo(t))

\* C11 as stated: for every mask m, reserved flags included, decoding the
\* tokens of the set flags of m gives m again and the loop enables exactly
\* the tasks whose bit is set in m.
C11_RoundTripEveryMask == \A m \in Masks : RoundTrip(m)

\* C11 amended: for every mask m with no reserved flag set, decoding the
\* tokens of the set flags of m gives the value of m again (the decoded
\* string is not padded to eight digits) and the loop enables exactly the
\* tasks whose bit is set in m.
C11_RoundTripTaskMask == \A m \in TaskMasks : RoundTrip(m)

\* C11 witness: the mask 00001001 through its tokens and back, in the loop.
C11_Witness ==
  /\ lpc = "fire" /\ args = <<"--nowplaying", "-w">>
  /\ BinToInt(event) = BinToInt(<<0,0,0,0,1,0,0,1>>) /\ event = <<1,0,0,1>>
  /\ flags["nowplaying"] # 0 /\ flags["swear"] # 0 /\ flags["status"] = 0

Changed(r, key) == [r EXCEPT ![key] = "y"]

\* swear.json as the song logger may have left it: complete records that
\* differ in one value, and records that lack one key
LoggerRecords ==
  {Record("r1"), Record("r2")}
    \cup {Changed(Record("r1"), k) : k \in MsgKeys}
    \cup {Without(Record("r1"), k) : k \in MsgKeys}

InitSeq ==
  /\ args = <<>>
  /\ entry = "none"
  /\ event = <<>>
  /\ frequency = 0
  /\ lpc = "idle"
  /\ flags = NoFlags
  /\ clock = ZeroClock
  /\ tick = 0
  /\ launchLog = <<>>
  /\ followed \in Followed
  /\ stat \in Among("status", {NoFile, "Running", "Stream Down"}, NoFile)
  /\ song \in Among("nowplaying", {NoFile, "None", "t1"}, NoFile)
  /\ lyric \in Among("lyric", {NoFile, "t1"}, NoFile)
  /\ lastSwear \in Among("swear", {NoJson, Json(Record("r1"))}, NoJson)
  /\ lyrics = NoFile
  /\ workers = EmptyBag
  /\ sent = NoneSent
  /\ kpc = "idle"
  /\ kills = 0
  /\ doneWritten = FALSE
  /\ crashed = FALSE
  /\ live \in Among("nowplaying", Tracks, "t1")
  /\ logged \in Among("lyric", Tracks, "t1")
  /\ swear \in Among("swear", LoggerRecords, Record("r1"))
  /\ changes = 0
  /\ taskRuns = 0
  /\ targv = <<>>
  /\ usages = 0
  /\ start = [kept |-> TRUE, stat |-> stat, song |-> song, lyric |-> lyric,
              lastSwear |-> lastSwear]
  /\ inputs = <<>>

NextSeq == TaskCommandSeq \/ Body \/ Environment

SpecSeq == InitSeq /\ [][NextSeq]_vars

\* task commands typed one after another, each process running to its end or
\* to an uncaught exception
NextSeqCrash == TaskCommandSeq \/ Worker \/ Environment

SpecSeqCrash == InitSeq /\ [][NextSeqCrash]_vars

\* the values of the entries of one kind in inputs, in order
Of(kind) ==
  LET mine == SelectSeq(inputs, LAMBDA e : e[1] = kind)
  IN [i \in 1..Len(mine) |-> mine[i][2]]

Idle == workers = EmptyBag

\* C12: from the marker "None", in a sequence of SongChange commands that
\* all fetch the same track t, the first one notifies t once and stores t,
\* and no later one notifies or publishes again.
C12_ForcedFirstRun ==
  LET c == Of("check")
  IN (start.song = "None" /\ Len(c) >= 1 /\ \A i \in 1..Len(c) : c[i] = c[1]) =>
       /\ \A m \in DOMAIN sent : m[2] = c[1] /\ sent[m] <= 1
       /\ Idle => /\ Count(<<"nowplaying", c[1]>>) = 1
                   /\ song = c[1]

\* C12 witness: three commands fetched t2 from the marker "None"; the
\* notification of the first is the only one.
C12_Witness ==
  /\ start.song = "None" /\ Of("check") = <<"t2", "t2", "t2">> /\ Idle
  /\ song = "t2" /\ Count(<<"nowplaying", "t2">>) = 1

\* a Stream Down marker found at the start is what a down invocation left
Prior == IF start.stat = "Stream Down" THEN <<"down">> ELSE <<>>

\* the "up" results that directly follow a "down" result
Recoveries(o) == {i \in 2..Len(o) : o[i - 1] = "down" /\ o[i] = "up"}

Downs(o) == {i \in 1..Len(o) : o[i] = "down"}

\* C13: over sequential StreamHealth commands, with nobody else writing
\* .teq.stat, the "back online" messages sent are one for each "up" result
\* that directly follows a "down" result, and none for an "up" after an "up".
C13_IncidentDedup ==
  ("status" \in followed /\ Idle) =>
    Count(<<"engineering", "back online">>)
      = Cardinality(Recoveries(Prior \o Of("status")))

\* C13 witness: down, up, up has sent one "back online".
C13_Witness ==
  /\ Idle /\ Of("status") = <<"down", "up", "up">> /\ start.stat = "Running"
  /\ Count(<<"engineering", "back online">>) = 1 /\ stat = "Running"

\* C14: every StreamHealth command whose five probes fail sends one
\* diagnostic and leaves Stream Down in .teq.stat, also when .teq.stat held
\* Stream Down before.
C14_DiagnosticPerDownFiring ==
  LET o == Of("status")
  IN ("status" \in followed /\ Idle) =>
       /\ Count(<<"engineering", "diagnostic">>) = Cardinality(Downs(o))
       /\ (Len(o) > 0 /\ o[Len(o)] = "down") => stat = "Stream Down"

\* C14 witness: two down firings in a row from Stream Down, two diagnostics.
C14_Witness ==
  /\ Idle /\ start.stat = "Stream Down" /\ Of("status") = <<"down", "down">>
  /\ Count(<<"engineering", "diagnostic">>) = 2 /\ stat = "Stream Down"

Complete(r) == DOMAIN r = MsgKeys

\* the record read by command i and the one read before it, the snapshot
\* of the start before the first
Before(rs, i) == IF i = 1 THEN start.lastSwear.data ELSE rs[i - 1]

\* the commands that read the record r when the snapshot held another one
News(rs, r) == {i \in 1..Len(rs) : rs[i] = r /\ rs[i] # Before(rs, i)}

\* C15: over sequential SwearLogRelay commands on complete records, a
\* command whose record equals the snapshot relays nothing and leaves the
\* snapshot, and one whose record differs from it, be it in one value,
\* relays the record once and leaves it as the snapshot.
C15_RelayOnChange ==
  LET rs == Of("swear")
  IN ("swear" \in followed /\ Idle /\ start.lastSwear.state = "json"
       /\ Len(rs) > 0 /\ \A i \in 1..Len(rs) : Complete(rs[i])) =>
       /\ lastSwear = Json(rs[Len(rs)])
       /\ \A r \in LoggerRecords :
            Count(<<"swear log", r>>) = Cardinality(News(rs, r))

\* C15 witness: a record that differs from the snapshot in one value was
\* read twice and relayed once.
C15_Witness ==
  LET r == Changed(Record("r1"), "song artist")
  IN /\ Idle /\ start.lastSwear = Json(Record("r1")) /\ Of("swear") = <<r, r>>
     /\ Count(<<"swear log", r>>) = 1 /\ lastSwear = Json(r)

\* C16: a record of swear.json that lacks one of the required fields is not
\* relayed, and the SwearLogRelay command that reads it returns without
\* raising.
C16_InvalidRecordIsSilent ==
  ("swear" \in followed /\ start.lastSwear.state = "json") =>
    /\ \A m \in DOMAIN sent : m[1] = "swear log" => Complete(m[2])
    /\ ~crashed

\* C17: whichever of .teq.song, .teq.lyric, .teq.stat and lastSwear.json is
\* missing, the task command that reads it gets a default and does not
\* raise: with complete records in swear.json no task command raises.
C17_MissingMarkerIsDefault ==
  LET rs == Of("swear")
  IN (\A i \in 1..Len(rs) : Complete(rs[i])) => ~crashed

\* the positions in inputs at which a SongChange command started
Starts == {p \in 1..Len(inputs) : inputs[p][1] = "nowplaying"}

\* the track fetched by the command that started at p: the one compared with
\* the marker when the comparison was made
Fetched(p) ==
  IF p < Len(inputs) /\ inputs[p + 1][1] = "check"
    THEN inputs[p + 1][2] ELSE inputs[p][2]

\* the marker the command that started at p should have found: the track
\* fetched by the command before it, the marker of the start for the first
Found(p) ==
  LET earlier == {q \in Starts : q < p}
  IN IF earlier = {} THEN start.song
     ELSE Fetched(CHOOSE q \in earlier : \A x \in earlier : x <= q)

Notifying(t) ==
  {p \in Starts : Fetched(p) = t /\ (Found(p) = "None" \/ Fetched(p) # Found(p))}

\* C18: after every completed SongChange command .teq.song holds the track
\* the command fetched, and the command notified and published exactly when
\* the marker it found was "None" or another track, no marker at all
\* counting as another track.
C18_MarkerFollowsTrack ==
  ("nowplaying" \in followed /\ Idle /\ Starts # {}) =>
    /\ song = Fetched(CHOOSE p \in Starts : \A x \in Starts : x <= p)
    /\ \A t \in Tracks :
         /\ Count(<<"nowplaying", t>>) = Cardinality(Notifying(t))
         /\ Count(<<"tunein", t>>) = Cardinality(Notifying(t))

\* the positions in inputs at which a LyricCheck command started
LyStarts == {p \in 1..Len(inputs) : inputs[p][1] = "lyric"}

Latest(ps) == CHOOSE p \in ps : \A x \in ps : x <= p

\* the marker the command that started at p should have found
FoundLyric(p) ==
  LET earlier == {q \in LyStarts : q < p}
  IN IF earlier = {} THEN start.lyric ELSE inputs[Latest(earlier)][2]

ChangedAt(p) == inputs[p][2] # FoundLyric(p)

Searched(p) == p < Len(inputs) /\ inputs[p + 1][1] = "search"

Warned(t) ==
  {p \in LyStarts : ChangedAt(p) /\ inputs[p][2] = t
                     /\ Searched(p) /\ inputs[p + 1][2] = "not clean"}

\* C19: a LyricCheck command that finds the logger's track in .teq.lyric
\* searches, writes and sends nothing; one that finds another track (or no
\* marker) stores the track, writes its report to lyrics.txt, and sends a
\* warning exactly when the search says "not clean".
C19_LyricCheck ==
  ("lyric" \in followed /\ Idle /\ LyStarts # {}) =>
    LET changed == {p \in LyStarts : ChangedAt(p)}
    IN /\ \A p \in LyStarts : Searched(p) <=> ChangedAt(p)
       /\ lyric = inputs[Latest(LyStarts)][2]
       /\ lyrics = IF changed = {} THEN NoFile ELSE inputs[Latest(changed)][2]
       /\ \A t \in Tracks :
            Count(<<"lyric warning", t>>) = Cardinality(Warned(t))

\* C19 witness: the marker held t1; commands read t1, t2, t2 and the one
\* search, of t2, was not clean.
C19_Witness ==
  /\ Idle /\ start.lyric = "t1" /\ Of("lyric") = <<"t1", "t2", "t2">>
  /\ Of("search") = <<"not clean">> /\ lyric = "t2" /\ lyrics = "t2"
  /\ Count(<<"lyric warning", "t2">>) = 1

\* a process of task t takes the step
Mover(t) ==
  \E w \in Running : w.task = t /\ CopiesIn(w, workers') < CopiesIn(w, workers)

\* C20: a step that changes .teq.song is a step of SongChange, one that
\* changes .teq.lyric or lyrics.txt a step of LyricCheck, one that changes
\* lastSwear.json a step of SwearLogRelay, one that changes .teq.stat a step
\* of StreamHealth; SelfUpdate changes none of them.
C20_OwnMarkersOnly ==
  [][/\ song' # song => Mover("nowplaying")
     /\ (lyric' # lyric \/ lyrics' # lyrics) => Mover("lyric")
     /\ lastSwear' # lastSwear => Mover("swear")
     /\ stat' # stat => Mover("status")]_vars

\* C20 witness: SwearLogRelay is in the middle of rewriting lastSwear.json
\* while a SelfUpdate process runs beside it; no other file has changed.
C20_Witness ==
  /\ \E w \in Running : w.task = "swear" /\ w.pc = "sw_write"
  /\ \E w \in Running : w.task = "update"
  /\ lastSwear = EmptyJson
  /\ stat = NoFile /\ song = NoFile /\ lyric = NoFile /\ lyrics = NoFile

\* the first task, in the order of the handler's tests, that a names
FirstNamed(a) ==
  LET named == {i \in 1..Len(Order) : \E j \in 1..Len(a) : a[j] \in Aliases(Order[i])}
  IN IF named = {} THEN "none"
     ELSE Order[CHOOSE i \in named : \A x \in named : i <= x]

\* C21: a task command starts no loop, writes and deletes none of the
\* marker files itself, sends nothing itself, and runs one task body, the
\* first its flags name, also when they name several.
C21_TaskCommandRunsOneBody ==
  [][taskRuns' # taskRuns =>
       /\ lpc' = "idle" /\ launchLog' = launchLog /\ entry' = entry
       /\ fileVars' = fileVars /\ sent' = sent
       /\ workers' = IF FirstNamed(targv') = "none" THEN workers
                      ELSE workers (+) SetToBag({NewWorker(FirstNamed(targv'))})]_vars

\* C21 witness: 'task -s -n' runs the SongChange body alone and has touched
\* no marker file.
C21_Witness ==
  /\ targv = <<"-s", "-n">> /\ taskRuns = 1 /\ lpc = "idle"
  /\ workers = SetToBag({NewWorker("nowplaying")})
  /\ stat = NoFile /\ song = "None"

\* C22: a step of the kill command changes no file but .teq.stat, which
\* holds Done when the command returns, and starts no process and sends no
\* message; a usage command changes no file, starts no process and sends no
\* message.
C22_KillAndUsageFrame ==
  [][/\ (kills' # kills \/ kpc' # kpc) =>
          /\ <<song, lyric, lastSwear, lyrics>>' = <<song, lyric, lastSwear, lyrics>>
          /\ workers' = workers /\ launchLog' = launchLog /\ sent' = sent
          /\ (kpc' = "idle" => stat' = "Done")
     /\ usages' # usages =>
          /\ fileVars' = fileVars
          /\ workers' = workers /\ launchLog' = launchLog /\ sent' = sent]_vars

\* C22 witness: kill and usage have both returned beside a SongChange
\* process that has not written yet; Done is stored and the song marker is
\* the one found at the start.
C22_Witness ==
  /\ kills = 1 /\ kpc = "idle" /\ usages = 1
  /\ stat = "Done" /\ song = "t1"
  /\ \E w \in Running : w.task = "nowplaying"

\* the tasks started by this step of the loop
LaunchedNow(t) ==
  \E i \in (Len(launchLog) + 1)..Len(launchLog') : launchLog'[i][2] = t

C24_CounterRule ==
  [][/\ (lpc = "fire" /\ lpc' # lpc) =>
          \A t \in Tasks :
            /\ LaunchedNow(t) <=> (flags[t] # 0 /\ clock[t] % Divisor(t) = 0)
            /\ clock'[t] = IF LaunchedNow(t) THEN 1 ELSE clock[t]
     /\ (lpc = "sleep" /\ lpc' # lpc) =>
          /\ lpc' = "check"
          /\ \A t \in Tasks : clock'[t] = clock[t] + 1]_vars

\* C25: no step of a task process changes .teq.stat while it holds Done.
C25_DoneIsKept ==
  [][(stat = "Done" /\ workers' # workers) => stat' = "Done"]_vars

\* C26: "back online" is sent at most once per incident; the incidents are
\* at most the one .teq.stat recorded at the start and one per firing that
\* found the stream down since, each of which has sent its diagnostic.
C26_OneRecoveryPerIncident ==
  Count(<<"engineering", "back online">>) <= 1 + Count(<<"engineering", "diagnostic">>)

\* C27: the Running the loop writes at its start replaces whatever
\* .teq.stat held, the Stream Down of a StreamHealth process included, and a
\* StreamHealth process that finds the stream up and anything but Stream Down
\* in .teq.stat ends without writing and without "back online".
C27_SeedErasesIncident ==
  [][/\ (lpc = "seed_stat_w" /\ lpc' = "fire") => stat' = "Running"
     /\ \A w \in Running :
          (/\ w.pc = "st_check" /\ stat # "Stream Down"
           /\ CopiesIn(w, workers') < CopiesIn(w, workers)) =>
            /\ workers' = Exit(w) /\ stat' = stat /\ sent' = sent]_vars

\* C27 witness: a 'task --status' process found the stream down, sent its
\* diagnostic and stored Stream Down; the scheduler started beside it wrote
\* Running over it; the StreamHealth process of tick 0 found the stream up
\* and has ended: no "back online" was sent.
C27_Witness ==
  /\ taskRuns = 1 /\ launchLog = << <<0, "status">> >>
  /\ workers = EmptyBag /\ lpc = "sleep"
  /\ stat = "Running"
  /\ Count(<<"engineering", "diagnostic">>) = 1
  /\ Count(<<"engineering", "back online">>) = 0

Seeding == lpc \in {"idle", "seed_song", "seed_song_w", "seed_stat", "seed_stat_w"}

\* C28: when the loop is about to start its first tasks, .teq.song holds
\* "None" and, no kill having been typed, .teq.stat holds Running whatever it
\* held before the command; the loop ends on Done only if a kill stored it
\* while the loop was running; and no task has been started, and no task
\* process runs, before the seed is written.
C28_StartSeedsBeforeLaunch ==
  /\ (lpc = "fire" /\ tick = 0) =>
       /\ song = "None"
       /\ (kills = 0 => stat = "Running")
  /\ lpc \in {"delete", "done"} => doneWritten
  /\ Seeding => (launchLog = <<>> /\ workers = EmptyBag)

\* C28 witness: a kill command stored Done before the seed was written; the
\* run has passed two checks of .teq.stat and goes on, with Running stored.
C28_Witness ==
  /\ kills = 1 /\ kpc = "idle" /\ ~doneWritten
  /\ lpc = "fire" /\ tick = 2
  /\ stat = "Running"
  /\ \E i \in 1..Len(launchLog) : launchLog[i][1] = 0

\* a SongChange process of this run was started and followed, every process
\* has run to its end, none by an exception
SongChangeOver ==
  /\ "nowplaying" \in followed
  /\ \E i \in 1..Len(launchLog) : launchLog[i][2] = "nowplaying"
  /\ workers = EmptyBag /\ ~crashed

\* C29: the start of a run, up to its first launch, leaves .teq.lyric,
\* lastSwear.json and lyrics.txt as they were and writes "None" to .teq.song;
\* and once the SongChange processes of the run have ended, the live track
\* has been notified in this run, whatever .teq.song held before the start.
C29_RestartRenotifies ==
  [][/\ Seeding => <<lyric, lastSwear, lyrics>>' = <<lyric, lastSwear, lyrics>>
     /\ (lpc = "seed_song_w" /\ lpc' = "seed_stat") => song' = "None"
     /\ SongChangeOver' => (Count(<<"nowplaying", live>>))' >= 1]_vars

\* C29 witness: the run has started SongChange once, the process has ended,
\* and the live track t1 is notified, published and stored; .teq.lyric and
\* lastSwear.json are as at the start.
C29_Witness ==
  /\ entry = "command" /\ args = <<"--nowplaying">>
  /\ launchLog = << <<0, "nowplaying">> >> /\ workers = EmptyBag /\ ~crashed
  /\ Count(<<"nowplaying", "t1">>) = 1 /\ Count(<<"tunein", "t1">>) = 1
  /\ song = "t1" /\ lyric = NoFile /\ lastSwear = Json(Record("r1"))

\* C30: a StreamHealth process that has finished pinging made between 1 and
\* 5 pings, every ping before the last failed, it takes the "up" branch if
\* and only if one of its pings succeeded, which then is the last one, and
\* it takes the "down" branch, alive, after exactly 5 failed pings.
C30_ProbeLoop ==
  \A w \in Running :
    (w.task = "status" /\ w.pc \in {"st_check", "st_diag"}) =>
      LET p == w.data
      IN /\ Len(p) \in 1..5 /\ w.n = Len(p)
         /\ \A i \in 1..(Len(p) - 1) : ~p[i]
         /\ (w.pc = "st_check") <=> (\E i \in 1..Len(p) : p[i])
         /\ (w.pc = "st_check") => p[Len(p)]
         /\ (w.pc = "st_diag") => Len(p) = 5

\* C30 witness: one process stopped at its third ping, the first to succeed,
\* and one made five failing pings and goes on in the "down" branch.
C30_Witness ==
  /\ \E w \in Running : w.pc = "st_check" /\ w.data = <<FALSE, FALSE, TRUE>>
  /\ \E w \in Running : w.pc = "st_diag" /\ w.data = <<FALSE, FALSE, FALSE, FALSE, FALSE>>

\* the number of times the value v starts a run of equal values in s
Blocks(s, v) ==
  Cardinality({i \in 1..Len(s) : s[i] = v /\ (i = 1 \/ s[i - 1] # v)})

\* C31: over task commands typed one after another, each ending normally or
\* by an exception at any point: when a notification of SongChange,
\* LyricCheck or SwearLogRelay is sent the marker already holds its value,
\* and a value is notified at most once for each time the invocations came
\* to fetch it after another one.
C31_MarkerBeforeNotice ==
  [][/\ \A m \in DOMAIN sent' :
          (Count(m))' > Count(m) =>
            CASE m[1] = "nowplaying"    -> song = m[2]
              [] m[1] = "tunein"        -> song = m[2]
              [] m[1] = "lyric warning" -> lyric = m[2]
              [] m[1] = "swear log"     -> lastSwear = Json(m[2])
              [] OTHER                  -> TRUE
     /\ \A m \in DOMAIN sent' :
          CASE m[1] = "nowplaying"    -> (Count(m))' <= (Blocks(Of("check"), m[2]))'
            [] m[1] = "tunein"        -> (Count(m))' <= (Blocks(Of("check"), m[2]))'
            [] m[1] = "lyric warning" -> (Count(m))' <= (Blocks(Of("lyric"), m[2]))'
            [] m[1] = "swear log"     -> (Count(m))' <= (Blocks(Of("swear"), m[2]))'
            [] OTHER                  -> TRUE]_vars

\* C31 witness: the first SongChange command stored t1 and ended by an
\* exception before it notified; two more commands fetched t1 and ended
\* normally: t1 was never notified.
C31_Witness ==
  /\ start.song = "None" /\ Of("check") = <<"t1", "t1", "t1">>
  /\ crashed /\ Idle /\ song = "t1"
  /\ Count(<<"nowplaying", "t1">>) = 0

\* C32: for the record a read from swear.json and the record b read from
\* lastSwear.json, compare_json(a, b) is true exactly when a and b have the
\* same keys and the same value under each, it equals compare_json(b, a),
\* and it is true when a = b.
C32_CompareJson ==
  \A w \in Running :
    (w.pc = "sw_last" /\ lastSwear.state = "json") =>
      LET a == w.data
          b == lastSwear.data
      IN /\ compare_json(a, b) <=>
              (DOMAIN a = DOMAIN b /\ \A k \in DOMAIN a : a[k] = b[k])
         /\ compare_json(a, b) <=> compare_json(b, a)
         /\ a = b => compare_json(a, b)

\* C32 witness: the record read has every key of the stored one, with the
\* same values, and one key more; the comparison is about to be made.
C32_Witness ==
  \E w \in Running :
    /\ w.pc = "sw_last" /\ w.data = Without(Record("r1"), "date")
    /\ lastSwear = Json(Record("r1"))
    /\ ~compare_json(w.data, lastSwear.data)

\* a StreamHealth process leaves the position pc in this step
Leaves(pc) ==
  \E w \in Running : w.task = "status" /\ w.pc = pc
                       /\ CopiesIn(w, workers') < CopiesIn(w, workers)

\* C33: .teq.stat is missing or holds Running, Stream Down or Done, in the
\* first state and after every step; a step that puts Running there is the
\* seed of the loop or a write of a StreamHealth process, one that puts
\* Stream Down there is a write of a StreamHealth process, and one that puts
\* Done there is the write of the kill command.
C33_TriState ==
  [][/\ stat \in {NoFile, "Running", "Stream Down", "Done"}
     /\ stat' \in {NoFile, "Running", "Stream Down", "Done"}
     /\ (stat' = "Running" /\ stat # "Running") =>
          \/ lpc = "seed_stat_w" /\ lpc' = "fire"
          \/ Leaves("st_up_write")
     /\ (stat' = "Stream Down" /\ stat # "Stream Down") => Leaves("st_down_write")
     /\ (stat' = "Done" /\ stat # "Done") => (kpc = "write" /\ kpc' = "idle")]_vars

\* the place of a task in the order SongChange, StreamHealth, LyricCheck,
\* SwearLog, SelfUpdate
Place(t) ==
  CHOOSE i \in 1..5 : <<"nowplaying", "status", "lyric", "swear", "update">>[i] = t

\* C34: the launches are logged tick after tick, those of one tick in the
\* order SongChange, StreamHealth, LyricCheck, SwearLog, SelfUpdate, none of
\* them after the sleep of its tick; and when LyricCheck and SwearLog are
\* both enabled they have been launched on the same ticks.
C34_LaunchOrder ==
  /\ \A i \in 1..(Len(launchLog) - 1) :
       \/ launchLog[i][1] < launchLog[i + 1][1]
       \/ /\ launchLog[i][1] = launchLog[i + 1][1]
          /\ Place(launchLog[i][2]) < Place(launchLog[i + 1][2])
  /\ \A i \in 1..Len(launchLog) :
       launchLog[i][1] <= tick /\ (launchLog[i][1] = tick => lpc # "fire")
  /\ (flags["lyric"] # 0 /\ flags["swear"] # 0) => Firings("lyric") = Firings("swear")

\* C35: with base frequency f, an iteration that starts all it has to start
\* starts StreamHealth, when enabled, exactly when its counter is a multiple
\* of 5f.
C35_StatusEveryFiveF ==
  [][(lpc = "fire" /\ lpc' = "sleep" /\ flags["status"] # 0) =>
       (LaunchedNow("status") <=> clock["status"] % (5 * frequency) = 0)]_vars

\* C36: a LyricCheck process that has searched goes on to warn exactly when
\* the song was found and one of the two profanity tests reported swears.
C36_WarnsOnAnySwear ==
  \A w \in Running :
    (w.task = "lyric" /\ w.pc \in {"ly_msg", "ly_post"} /\ w.data # NoRecord) =>
      ((w.pc = "ly_msg") <=>
         (w.data.found /\ \E i \in 1..Len(w.data.tests) : w.data.tests[i] = SONG_HAS_SWEARS))

\* C37: a SongChange command never ends by an exception, and every track it
\* has notified, with or without the separator "__by__", it has published.
C37_PublishCompletes ==
  ("nowplaying" \in followed /\ Idle) =>
    /\ ~crashed
    /\ \A t \in Tracks : Count(<<"tunein", t>>) = Count(<<"nowplaying", t>>)

\* C38: whenever the loop is about to test its counters, the counter of an
\* enabled task with divisor d >= 2 is 0, on the first tick, or lies between
\* 2 and d, and the counter of a task that is not enabled is the number of
\* ticks elapsed.
C38_CounterRange ==
  lpc = "fire" =>
    \A t \in Tasks :
      IF flags[t] # 0
        THEN Divisor(t) >= 2 =>
               \/ clock[t] = 0 /\ tick = 0
               \/ 2 <= clock[t] /\ clock[t] <= Divisor(t)
        ELSE clock[t] = tick

\* C38 witness: with f = 1 and the mask of SongChange and StreamHealth, the
\* counter of StreamHealth has reached its divisor 20 at the test of tick 19,
\* and the counter of LyricCheck, not enabled, is 19.
C38_Witness ==
  /\ lpc = "fire" /\ frequency = 1 /\ tick = 19
  /\ flags["status"] # 0 /\ clock["status"] = 20
  /\ flags["lyric"] = 0 /\ clock["lyric"] = 19

====
